---- MODULE Spec2Model ----
(***************************************************************************)
(* Versioned RDF dataset of vrdf.py: class DB (a ConjunctiveGraph over an  *)
(* SQL store) with the two log tables `changesets` and `redos`, the commit *)
(* pipeline new_changeset, the snapshot reconstruction graph_at/_graph_at  *)
(* and undo/redo.                                                          *)
(***************************************************************************)
EXTENDS Integers, Sequences, FiniteSets, Bags, TLC

\* ------------------------------------------------------------------ bounds
\* number of calls of new_changeset (each draws one uuid4)
MaxCommits == 2
\* caller-supplied logical timestamps are 1..MaxTs
MaxTs == 2
\* longest list of staged additions, and of staged removals, of a changeset
MaxStaged == 1
\* wall clock readings are 0..MaxClock (whole seconds, as strftime %S keeps)
MaxClock == 1
\* number of add_precommit_hook / add_postcommit_hook calls
MaxHookRegs == 2

\* ------------------------------------------------------------ value sets
Triples == {"t1", "t2"}
GraphNames == {"g", "h"}
\* ConjunctiveGraph.default_context: a graph named by a fresh BNode
DefaultContext == "default"
Contexts == GraphNames \cup {DefaultContext}
HookNames == {"validate", "audit"}
HookFns == {"f1", "f2"}

\* A value of the TIMESTAMP column. The column has NUMERIC affinity: a
\* caller-supplied logical timestamp is stored as INTEGER, the strftime
\* text of a defaulted one as TEXT, and INTEGER sorts before TEXT.
IntTs(n) == [text |-> FALSE, v |-> n]
Strftime(now) == [text |-> TRUE, v |-> now]
Timestamps == {IntTs(n) : n \in 1..MaxTs} \cup {Strftime(c) : c \in 0..MaxClock}
TsLess(a, b) == \/ (~a.text) /\ b.text
                \/ a.text = b.text /\ a.v < b.v
TsGeq(a, b) == ~TsLess(a, b)

\* the ts / timestamp parameter: <<>> is None, <<n>> a logical timestamp
NoneArg == << >>
TsArgs == {NoneArg} \cup {<<n>> : n \in 1..MaxTs}

\* lists of staged triples of length <= MaxStaged
StagedLists == UNION {[1..n -> Triples] : n \in 0..MaxStaged}

Range(s) == {s[i] : i \in DOMAIN s}

\* ------------------------------------------------------------------ state
VARIABLES
    store,            \* the live quad store: context -> set of triples
    changesets,       \* table changesets (active log): a bag of rows
    redos,            \* table redos: a bag of rows
    precommit_hooks,  \* OrderedDict name -> callback, as a sequence
    postcommit_hooks, \* OrderedDict name -> callback, as a sequence
    clock,            \* last wall clock reading
    nextId,           \* number of uuids drawn so far
    nregs,            \* number of hook registrations so far
    last,             \* history: the last operation that is not a read
    prev,             \* history: the operation before `last`, kept for undo/redo
    snap,             \* history: the graph_at call made since `last`, if any
    commits,          \* history: every finalized changeset, oldest first
    undone,           \* history: ids in the order undo moved them, oldest first
    listing,          \* history: the versions call made since `last`, if any
    views,            \* history: what each hook invoked by `last` was handed
    regs,             \* history: every hook registration, oldest first
    latest_changed,   \* main.py: DB.latest_changed
    _cached_graph     \* main.py: DB._cached_graph

vars == <<store, changesets, redos, precommit_hooks, postcommit_hooks, clock,
          nextId, nregs, last, prev, snap, commits, undone, listing, views, regs,
          latest_changed, _cached_graph>>

\* ---------------------------------------------------------------- tables
Row(id, ts, graph, ins, triple) ==
    [id |-> id, timestamp |-> ts, graph |-> graph, is_insertion |-> ins,
     triple |-> triple]

\* the rows of table B that are in the set `rows`, with their multiplicities
BagWhere(B, rows) == [r \in DOMAIN B \cap rows |-> B[r]]

\* the bag of the elements of the list s
RECURSIVE BagOfSeq(_)
BagOfSeq(s) ==
    IF s = << >> THEN EmptyBag
    ELSE SetToBag({Head(s)}) (+) BagOfSeq(Tail(s))

\* ------------------------------------------------------------ graph store
\* ConjunctiveGraph.triples((None, None, None)): the union of all contexts
AllTriples(st) == UNION {st[c] : c \in Contexts}

EmptyStore == [c \in Contexts |-> {}]

\* Graph.add / Graph.remove on get_context(graph_name)
ContextAdd(st, c, x) == [st EXCEPT ![c] = @ \cup {x}]

\* (mutant) remove through the ConjunctiveGraph: out of every context
ContextRemoveEverywhere(st, c, x) == [k \in Contexts |-> st[k] \ {x}]

ContextRemove(st, c, x) == [st EXCEPT ![c] = @ \ {x}]

RECURSIVE ContextRemoveAll(_, _, _)
ContextRemoveAll(st, c, s) ==
    IF s = << >> THEN st
    ELSE ContextRemoveAll(ContextRemove(st, c, Head(s)), c, Tail(s))

RECURSIVE ContextAddAll(_, _, _)
ContextAddAll(st, c, s) ==
    IF s = << >> THEN st
    ELSE ContextAddAll(ContextAdd(st, c, Head(s)), c, Tail(s))

\* ----------------------------------------------------------------- replay
\* One step of a replay loop: add (TRUE) or remove (FALSE) `triple`; `key` is
\* the value the rows are ordered by. Rows come in descending key order and
\* the order of rows with equal keys is not determined by the query.
ReplayOp(triple, add, key) == [triple |-> triple, add |-> add, key |-> key]

Touched(ops) == {o.triple : o \in ops}

\* the kinds the last step on triple x can have, over all admissible orders
LastKinds(ops, x) ==
    {o.add : o \in {p \in ops : /\ p.triple = x
                                /\ \A q \in ops : q.triple = x => TsGeq(q.key, p.key)}}

AnyRemove(ops, x) == \E o \in ops : o.triple = x /\ ~o.add

\* the choices of the last step per touched triple
LastChoices(ops) ==
    {f \in [Touched(ops) -> BOOLEAN] : \A x \in Touched(ops) : f[x] \in LastKinds(ops, x)}

\* the loop run against a plain Graph (a triple set): the possible results
GraphReplay(base, ops) ==
    {(base \ Touched(ops)) \cup {x \in Touched(ops) : f[x]} : f \in LastChoices(ops)}

\* the loop run against the DB itself, a ConjunctiveGraph: add() puts the
\* triple into the default context, remove() takes it out of every context
ConjunctiveReplay(st, ops) ==
    {[c \in Contexts |->
        (st[c] \ {x \in Touched(ops) : ~f[x] \/ AnyRemove(ops, x)})
        \cup (IF c = DefaultContext THEN {x \in Touched(ops) : f[x]} ELSE {})]
     : f \in LastChoices(ops)}

\* SELECT * FROM changesets WHERE [graph = ? AND] timestamp >= ?
GraphAtRows(log, timestamp, graph) ==
    {r \in DOMAIN log : /\ graph = NoneArg \/ r.graph = graph[1]
                        /\ TsGeq(r.timestamp, timestamp)}

\* the loop body of _graph_at: an insertion row adds, a deletion row removes
GraphAtOps(rows) == {ReplayOp(r.triple, r.is_insertion, r.timestamp) : r \in rows}

\* DB._graph_at with alter_graph a plain Graph
_graph_at(alter_graph, log, timestamp, graph) ==
    GraphReplay(alter_graph, GraphAtOps(GraphAtRows(log, timestamp, graph)))

\* DB._graph_at with alter_graph = self
_graph_at_self(st, log, timestamp) ==
    ConjunctiveReplay(st, GraphAtOps(GraphAtRows(log, timestamp, NoneArg)))

\* ------------------------------------------------------------------- logs
\* the rows of one changeset
RowsOfChangeset(log, id) == BagWhere(log, {r \in DOMAIN log : r.id = id})

\* ... ORDER BY timestamp DESC LIMIT 1: the rows that can come first
LatestRows(log) ==
    {r \in DOMAIN log : \A q \in DOMAIN log : TsGeq(r.timestamp, q.timestamp)}

\* ... ORDER BY timestamp ASC LIMIT 1: the rows that can come first
EarliestRows(log) ==
    {r \in DOMAIN log : \A q \in DOMAIN log : TsGeq(q.timestamp, r.timestamp)}

\* the rows new_changeset writes for the staged removals
DeletionRows(id, ts, graph, deletions) ==
    BagOfSeq([i \in DOMAIN deletions |-> Row(id, ts, graph, TRUE, deletions[i])])

\* (mutant) additions logged as they were staged, not inverted
AdditionRowsNotInverted(id, ts, graph, additions) ==
    BagOfSeq([i \in DOMAIN additions |-> Row(id, ts, graph, TRUE, additions[i])])

\* the rows new_changeset writes for the staged additions
AdditionRows(id, ts, graph, additions) ==
    BagOfSeq([i \in DOMAIN additions |-> Row(id, ts, graph, FALSE, additions[i])])

\* ---------------------------------------------------------------- history
Snapshot == [store |-> store, changesets |-> changesets, redos |-> redos,
             undone |-> undone]

EmptySnapshot == [store |-> EmptyStore, changesets |-> EmptyBag, redos |-> EmptyBag,
                  undone |-> << >>]

\* an operation, its arguments and the state it started from
OpRecord(op, outcome, id, graph, ts, additions, deletions, calls) ==
    [op |-> op, outcome |-> outcome, id |-> id, graph |-> graph, ts |-> ts,
     additions |-> additions, deletions |-> deletions, calls |-> calls,
     pre |-> Snapshot]

NoOp == [op |-> "none", outcome |-> "none", id |-> 0, graph |-> NoneArg,
         ts |-> NoneArg, additions |-> << >>, deletions |-> << >>,
         calls |-> << >>, pre |-> EmptySnapshot]

\* what is kept of the operation before `last`: `chained` says that the
\* operation before it was a finalized changeset
PrevRecord(op, outcome, pre, chained) ==
    [op |-> op, outcome |-> outcome, pre |-> pre, chained |-> chained]

NoPrev == PrevRecord("none", "none", EmptySnapshot, FALSE)

NoSnap == [called |-> FALSE, timestamp |-> NoneArg, graph |-> NoneArg, result |-> {}]

NoListing == [called |-> FALSE, graph |-> NoneArg, result |-> << >>]

\* ------------------------------------------------------------------ hooks
Hook(name, fn) == [name |-> name, fn |-> fn]

\* (mutant) the registry is a plain list: every registration is appended
SetHookAppend(reg, hook) == Append(reg, hook)

\* OrderedDict.__setitem__: a known key keeps its place and gets the new
\* value, a new key goes to the end
SetHook(reg, hook) ==
    IF \E i \in DOMAIN reg : reg[i].name = hook.name
    THEN [i \in DOMAIN reg |-> IF reg[i].name = hook.name THEN hook ELSE reg[i]]
    ELSE Append(reg, hook)

\* the hooks a finalization invokes when the fail-th of them raises
\* (fail = 0: none raises): precommit hooks first, then postcommit hooks
HookCalls(pre, post, fail) ==
    LET all == [i \in DOMAIN pre |-> <<"pre", pre[i].fn>>]
               \o [i \in DOMAIN post |-> <<"post", post[i].fn>>]
    IN  SubSeq(all, 1, IF fail = 0 THEN Len(all) ELSE fail)

CommitOutcome(pre, fail) ==
    IF fail = 0 THEN "committed"
    ELSE IF fail <= Len(pre) THEN "precommit_raised" ELSE "postcommit_raised"

\* (mutant) the precommit hooks run before the rows are written and the
\* store is mutated
HookViewsBeforeWrites(pre, post, fail, st, log) ==
    [i \in DOMAIN HookCalls(pre, post, fail) |->
        IF i <= Len(pre) THEN [store |-> store, changesets |-> changesets]
        ELSE [store |-> st, changesets |-> log]]

\* hook(self): the store and the active log each invoked hook is handed,
\* st and log being those the finalization has produced
HookViews(pre, post, fail, st, log) ==
    [i \in DOMAIN HookCalls(pre, post, fail) |-> [store |-> st, changesets |-> log]]

\* ------------------------------------------------------------------- Init
Init ==
    /\ store = EmptyStore
    /\ changesets = EmptyBag
    /\ redos = EmptyBag
    /\ precommit_hooks = << >>
    /\ postcommit_hooks = << >>
    /\ clock = 0
    /\ nextId = 0
    /\ nregs = 0
    /\ last = NoOp
    /\ prev = NoPrev
    /\ snap = NoSnap
    /\ commits = << >>
    /\ undone = << >>
    /\ listing = NoListing
    /\ views = << >>
    /\ regs = << >>
    /\ latest_changed = TRUE
    /\ _cached_graph = {}

\* ---------------------------------------------------------------- actions
add_precommit_hook(hook) ==
    /\ nregs < MaxHookRegs
    /\ precommit_hooks' = SetHook(precommit_hooks, hook)
    /\ nregs' = nregs + 1
    /\ last' = OpRecord("add_precommit_hook", "ok", 0, NoneArg, NoneArg,
                        << >>, << >>, << >>)
    /\ prev' = NoPrev
    /\ snap' = NoSnap
    /\ listing' = NoListing
    /\ UNCHANGED <<latest_changed, _cached_graph>>
    /\ views' = << >>
    /\ regs' = Append(regs, <<"pre", hook>>)
    /\ UNCHANGED <<store, changesets, redos, postcommit_hooks, clock, nextId,
                   commits, undone>>

add_postcommit_hook(hook) ==
    /\ nregs < MaxHookRegs
    /\ postcommit_hooks' = SetHook(postcommit_hooks, hook)
    /\ nregs' = nregs + 1
    /\ last' = OpRecord("add_postcommit_hook", "ok", 0, NoneArg, NoneArg,
                        << >>, << >>, << >>)
    /\ prev' = NoPrev
    /\ snap' = NoSnap
    /\ listing' = NoListing
    /\ UNCHANGED <<latest_changed, _cached_graph>>
    /\ views' = << >>
    /\ regs' = Append(regs, <<"post", hook>>)
    /\ UNCHANGED <<store, changesets, redos, precommit_hooks, clock, nextId,
                   commits, undone>>

\* (mutant) the finalization runs although the block raised (a finally
\* around the yield)
new_changeset_body_finalizes(graph_name, additions, deletions) ==
    /\ nextId < MaxCommits
    /\ nextId' = nextId + 1
    /\ changesets' = changesets
            (+) DeletionRows(nextId + 1, Strftime(clock), graph_name, deletions)
            (+) AdditionRows(nextId + 1, Strftime(clock), graph_name, additions)
    /\ store' = ContextAddAll(ContextRemoveAll(store, graph_name, deletions),
                              graph_name, additions)
    /\ last' = OpRecord("new_changeset", "body_raised", nextId + 1,
                        <<graph_name>>, NoneArg, additions, deletions, << >>)
    /\ prev' = NoPrev
    /\ snap' = NoSnap
    /\ listing' = NoListing
    /\ UNCHANGED <<latest_changed, _cached_graph>>
    /\ views' = << >>
    /\ regs' = regs
    /\ UNCHANGED <<redos, precommit_hooks, postcommit_hooks,
                   clock, nregs, commits, undone>>

\* `with db.new_changeset(graph_name, ts) as cs:` whose body raises after
\* staging: the generator is resumed with the exception at its yield
new_changeset_body_raises(graph_name, additions, deletions) ==
    /\ nextId < MaxCommits
    /\ nextId' = nextId + 1
    /\ last' = OpRecord("new_changeset", "body_raised", nextId + 1,
                        <<graph_name>>, NoneArg, additions, deletions, << >>)
    /\ prev' = NoPrev
    /\ snap' = NoSnap
    /\ listing' = NoListing
    /\ UNCHANGED <<latest_changed, _cached_graph>>
    /\ views' = << >>
    /\ regs' = regs
    /\ UNCHANGED <<store, changesets, redos, precommit_hooks, postcommit_hooks,
                   clock, nregs, commits, undone>>

\* (mutant) a failing postcommit hook undoes the commit: the rows and the
\* store mutations are dropped
new_changeset_postcommit_rollback(graph_name, ts, additions, deletions, now, fail) ==
    LET id == nextId + 1
        effective == IF ts = NoneArg THEN Strftime(now) ELSE IntTs(ts[1])
        removed == ContextRemoveAll(store, graph_name, deletions)
        added == ContextAddAll(removed, graph_name, additions)
        outcome == CommitOutcome(precommit_hooks, fail)
        kept == outcome # "postcommit_raised"
    IN  /\ nextId < MaxCommits
        /\ now = clock \/ ts = NoneArg
        /\ nextId' = id
        /\ clock' = now
        /\ changesets' = IF kept
                          THEN changesets
                               (+) DeletionRows(id, effective, graph_name, deletions)
                               (+) AdditionRows(id, effective, graph_name, additions)
                          ELSE changesets
        /\ store' = IF kept THEN added ELSE store
        /\ last' = OpRecord("new_changeset", outcome, id, <<graph_name>>,
                            <<effective>>, additions, deletions,
                            HookCalls(precommit_hooks, postcommit_hooks, fail))
        /\ prev' = NoPrev
        /\ snap' = NoSnap
        /\ listing' = NoListing
        /\ UNCHANGED <<latest_changed, _cached_graph>>
        /\ views' = HookViews(precommit_hooks, postcommit_hooks, fail, added,
                              changesets (+) DeletionRows(id, effective, graph_name, deletions)
                                         (+) AdditionRows(id, effective, graph_name, additions))
        /\ regs' = regs
        /\ commits' = Append(commits, [id |-> id, graph |-> graph_name,
                                       ts |-> effective, outcome |-> outcome,
                                       after |-> store'[graph_name]])
        /\ UNCHANGED <<redos, precommit_hooks, postcommit_hooks, nregs, undone>>

\* (mutant) a commit empties the redo log, as editors do
new_changeset_clears_redos(graph_name, ts, additions, deletions, now, fail) ==
    LET id == nextId + 1
        effective == IF ts = NoneArg THEN Strftime(now) ELSE IntTs(ts[1])
        removed == ContextRemoveAll(store, graph_name, deletions)
        added == ContextAddAll(removed, graph_name, additions)
        outcome == CommitOutcome(precommit_hooks, fail)
    IN  /\ nextId < MaxCommits
        /\ now = clock \/ ts = NoneArg
        /\ nextId' = id
        /\ clock' = now
        /\ changesets' = changesets (+) DeletionRows(id, effective, graph_name, deletions)
                                    (+) AdditionRows(id, effective, graph_name, additions)
        /\ store' = added
        /\ last' = OpRecord("new_changeset", outcome, id, <<graph_name>>,
                            <<effective>>, additions, deletions,
                            HookCalls(precommit_hooks, postcommit_hooks, fail))
        /\ prev' = NoPrev
        /\ snap' = NoSnap
        /\ listing' = NoListing
        /\ UNCHANGED <<latest_changed, _cached_graph>>
        /\ views' = HookViews(precommit_hooks, postcommit_hooks, fail, added, changesets')
        /\ regs' = regs
        /\ commits' = Append(commits, [id |-> id, graph |-> graph_name,
                                       ts |-> effective, outcome |-> outcome,
                                       after |-> added[graph_name]])
        /\ redos' = EmptyBag
        /\ UNCHANGED <<precommit_hooks, postcommit_hooks, nregs, undone>>

\* (mutant) the staged additions are applied before the staged removals
new_changeset_additions_first(graph_name, ts, additions, deletions, now, fail) ==
    LET id == nextId + 1
        effective == IF ts = NoneArg THEN Strftime(now) ELSE IntTs(ts[1])
        removed == ContextAddAll(store, graph_name, additions)
        added == ContextRemoveAll(removed, graph_name, deletions)
        outcome == CommitOutcome(precommit_hooks, fail)
    IN  /\ nextId < MaxCommits
        /\ now = clock \/ ts = NoneArg
        /\ nextId' = id
        /\ clock' = now
        /\ changesets' = changesets (+) DeletionRows(id, effective, graph_name, deletions)
                                    (+) AdditionRows(id, effective, graph_name, additions)
        /\ store' = added
        /\ last' = OpRecord("new_changeset", outcome, id, <<graph_name>>,
                            <<effective>>, additions, deletions,
                            HookCalls(precommit_hooks, postcommit_hooks, fail))
        /\ prev' = NoPrev
        /\ snap' = NoSnap
        /\ listing' = NoListing
        /\ UNCHANGED <<latest_changed, _cached_graph>>
        /\ views' = HookViews(precommit_hooks, postcommit_hooks, fail, added, changesets')
        /\ regs' = regs
        /\ commits' = Append(commits, [id |-> id, graph |-> graph_name,
                                       ts |-> effective, outcome |-> outcome,
                                       after |-> added[graph_name]])
        /\ UNCHANGED <<redos, precommit_hooks, postcommit_hooks, nregs, undone>>

\* `with db.new_changeset(graph_name, ts) as cs:` whose body staged
\* `additions` (cs.add) and `deletions` (cs.remove) and returned; the wall
\* clock reads `now` and the fail-th invoked hook raises (0: none)
new_changeset(graph_name, ts, additions, deletions, now, fail) ==
    LET id == nextId + 1
        effective == IF ts = NoneArg THEN Strftime(now) ELSE IntTs(ts[1])
        removed == ContextRemoveAll(store, graph_name, deletions)
        added == ContextAddAll(removed, graph_name, additions)
        outcome == CommitOutcome(precommit_hooks, fail)
    IN  /\ nextId < MaxCommits
        /\ now = clock \/ ts = NoneArg
        /\ nextId' = id
        /\ clock' = now
        /\ changesets' = changesets (+) DeletionRows(id, effective, graph_name, deletions)
                                    (+) AdditionRows(id, effective, graph_name, additions)
        /\ store' = added
        /\ last' = OpRecord("new_changeset", outcome, id, <<graph_name>>,
                            <<effective>>, additions, deletions,
                            HookCalls(precommit_hooks, postcommit_hooks, fail))
        /\ prev' = NoPrev
        /\ snap' = NoSnap
        /\ listing' = NoListing
        /\ UNCHANGED <<latest_changed, _cached_graph>>
        /\ views' = HookViews(precommit_hooks, postcommit_hooks, fail, added, changesets')
        /\ regs' = regs
        /\ commits' = Append(commits, [id |-> id, graph |-> graph_name,
                                       ts |-> effective, outcome |-> outcome,
                                       after |-> added[graph_name]])
        /\ UNCHANGED <<redos, precommit_hooks, postcommit_hooks, nregs, undone>>

\* (mutant) DELETE FROM <log> WHERE timestamp = (that of the changeset)
DeleteTimestamp(log, id) ==
    BagWhere(log, {r \in DOMAIN log :
                      \A q \in DOMAIN log : q.id = id => q.timestamp # r.timestamp})

\* DELETE FROM <log> WHERE id = ?
DeleteChangeset(log, id) == BagWhere(log, {r \in DOMAIN log : r.id # id})

\* the loop that ends redo: an insertion row removes, a deletion row adds;
\* the query has no ORDER BY, so all rows carry the same key
RedoOps(rows) == {ReplayOp(r.triple, ~r.is_insertion, IntTs(0)) : r \in rows}

Without(s, id) == SelectSeq(s, LAMBDA x : x # id)

\* (mutant) undo() on an empty active log returns without raising
undo_empty_silent ==
    /\ changesets = EmptyBag
    /\ last' = OpRecord("undo", "ok", 0, NoneArg, NoneArg, << >>, << >>, << >>)
    /\ prev' = NoPrev
    /\ snap' = NoSnap
    /\ listing' = NoListing
    /\ UNCHANGED <<latest_changed, _cached_graph>>
    /\ views' = << >>
    /\ regs' = regs
    /\ UNCHANGED <<store, changesets, redos, precommit_hooks, postcommit_hooks,
                   clock, nextId, nregs, commits, undone>>

\* DB.undo when latest_version is None
undo_empty ==
    /\ changesets = EmptyBag
    /\ last' = OpRecord("undo", "raised", 0, NoneArg, NoneArg, << >>, << >>, << >>)
    /\ prev' = NoPrev
    /\ snap' = NoSnap
    /\ listing' = NoListing
    /\ UNCHANGED <<latest_changed, _cached_graph>>
    /\ views' = << >>
    /\ regs' = regs
    /\ UNCHANGED <<store, changesets, redos, precommit_hooks, postcommit_hooks,
                   clock, nextId, nregs, commits, undone>>

\* DB.undo; latest is the row latest_version returns
undo(latest) ==
    /\ latest \in LatestRows(changesets)
    /\ \E st \in _graph_at_self(store, changesets, latest.timestamp) :
           store' = st
    /\ redos' = redos (+) RowsOfChangeset(changesets, latest.id)
    /\ changesets' = DeleteChangeset(changesets, latest.id)
    /\ undone' = Append(undone, latest.id)
    /\ last' = OpRecord("undo", "ok", latest.id, NoneArg, <<latest.timestamp>>,
                        << >>, << >>, << >>)
    /\ prev' = IF last.op = "new_changeset"
               THEN PrevRecord(last.op, last.outcome, last.pre, FALSE)
               ELSE NoPrev
    /\ snap' = NoSnap
    /\ listing' = NoListing
    /\ UNCHANGED <<latest_changed, _cached_graph>>
    /\ views' = << >>
    /\ regs' = regs
    /\ UNCHANGED <<precommit_hooks, postcommit_hooks, clock, nextId, nregs, commits>>

\* DB.redo when the redos table is empty
redo_empty ==
    /\ redos = EmptyBag
    /\ last' = OpRecord("redo", "raised", 0, NoneArg, NoneArg, << >>, << >>, << >>)
    /\ prev' = NoPrev
    /\ snap' = NoSnap
    /\ listing' = NoListing
    /\ UNCHANGED <<latest_changed, _cached_graph>>
    /\ views' = << >>
    /\ regs' = regs
    /\ UNCHANGED <<store, changesets, redos, precommit_hooks, postcommit_hooks,
                   clock, nextId, nregs, commits, undone>>

\* DB.redo; redo_record is the row the first query returns
redo(redo_record) ==
    LET moved == changesets (+) RowsOfChangeset(redos, redo_record.id)
    IN  /\ redo_record \in EarliestRows(redos)
        /\ changesets' = moved
        /\ redos' = DeleteChangeset(redos, redo_record.id)
        /\ \E st \in _graph_at_self(store, moved, redo_record.timestamp) :
             \E fwd \in ConjunctiveReplay(st,
                            RedoOps(DOMAIN RowsOfChangeset(moved, redo_record.id))) :
                store' = fwd
        /\ undone' = Without(undone, redo_record.id)
        /\ last' = OpRecord("redo", "ok", redo_record.id, NoneArg,
                            <<redo_record.timestamp>>, << >>, << >>, << >>)
        /\ prev' = IF last.op = "undo" /\ last.outcome = "ok"
                   THEN PrevRecord(last.op, last.outcome, last.pre,
                                   prev.op = "new_changeset" /\ prev.outcome = "committed")
                   ELSE NoPrev
        /\ snap' = NoSnap
        /\ listing' = NoListing
        /\ UNCHANGED <<latest_changed, _cached_graph>>
        /\ views' = << >>
        /\ regs' = regs
        /\ UNCHANGED <<precommit_hooks, postcommit_hooks, clock, nextId, nregs,
                       commits>>

\* (mutant) the replay runs against the live graph, not against a copy
graph_at_in_place(timestamp, graph, now) ==
    LET effective == IF timestamp = NoneArg THEN Strftime(now) ELSE IntTs(timestamp[1])
    IN  /\ now = clock \/ timestamp = NoneArg
        /\ clock' = now
        /\ IF graph = NoneArg
           THEN store' \in _graph_at_self(store, changesets, effective)
           ELSE \E result \in _graph_at(store[graph[1]], changesets, effective, graph) :
                    store' = [store EXCEPT ![graph[1]] = result]
        /\ snap' = [called |-> TRUE, timestamp |-> <<effective>>, graph |-> graph,
                    result |-> IF graph = NoneArg THEN AllTriples(store')
                               ELSE store'[graph[1]]]
        /\ listing' = NoListing
        /\ UNCHANGED <<latest_changed, _cached_graph>>
        /\ UNCHANGED <<changesets, redos, precommit_hooks, postcommit_hooks,
                       nextId, nregs, last, prev, commits, undone, views, regs>>

\* DB.graph_at(timestamp, graph): the copy g, then _graph_at on it
graph_at(timestamp, graph, now) ==
    LET effective == IF timestamp = NoneArg THEN Strftime(now) ELSE IntTs(timestamp[1])
        g == IF graph = NoneArg THEN AllTriples(store) ELSE store[graph[1]]
    IN  /\ now = clock \/ timestamp = NoneArg
        /\ clock' = now
        /\ \E result \in _graph_at(g, changesets, effective, graph) :
             snap' = [called |-> TRUE, timestamp |-> <<effective>>, graph |-> graph,
                      result |-> result]
        /\ listing' = NoListing
        /\ UNCHANGED <<latest_changed, _cached_graph>>
        /\ UNCHANGED <<store, changesets, redos, precommit_hooks, postcommit_hooks,
                       nextId, nregs, last, prev, commits, undone, views, regs>>

\* SELECT DISTINCT id, graph, timestamp from changesets [WHERE graph = ?]
VersionRecords(log, graph) ==
    {[id |-> r.id, graph |-> r.graph, timestamp |-> r.timestamp] :
        r \in {q \in DOMAIN log : graph = NoneArg \/ q.graph = graph[1]}}

\* (mutant) ORDER BY timestamp ASC
AscendingLists(recs) ==
    {s \in [1..Cardinality(recs) -> recs] :
        /\ \A i \in DOMAIN s : \A j \in DOMAIN s : i # j => s[i] # s[j]
        /\ \A i \in DOMAIN s : \A j \in DOMAIN s :
              i < j => TsGeq(s[j].timestamp, s[i].timestamp)}

\* ORDER BY timestamp DESC: the lists of the records the query can return
DescendingLists(recs) ==
    {s \in [1..Cardinality(recs) -> recs] :
        /\ \A i \in DOMAIN s : \A j \in DOMAIN s : i # j => s[i] # s[j]
        /\ \A i \in DOMAIN s : \A j \in DOMAIN s :
              i < j => TsGeq(s[i].timestamp, s[j].timestamp)}

\* DB.versions(graph)
versions(graph) ==
    /\ \E result \in DescendingLists(VersionRecords(changesets, graph)) :
         listing' = [called |-> TRUE, graph |-> graph, result |-> result]
    /\ snap' = NoSnap
    /\ UNCHANGED <<latest_changed, _cached_graph>>
    /\ UNCHANGED <<store, changesets, redos, precommit_hooks, postcommit_hooks,
                   clock, nextId, nregs, last, prev, commits, undone, views, regs>>

\* ---------------------------------------------------------------- main.py
\* The DB of main.py keeps the same state in two SQL tables: `triples`, one
\* row per (graph, triple), is store, and `changesets` is changesets; a row
\* holds the three terms of its triple in N3 form.
MainTsArgs == TsArgs \cup {<<0>>}

\* term.n3() of the three terms: one line "s p o ." of the text
N3Line(triple) == [s_p_o |-> triple, dot |-> "."]

\* Graph().parse(data=f, format="turtle") of a text of such lines
ParseTurtle(f) == {l.s_p_o : l \in f}

\* the Graph DB.latest(graph) returns: the cached one unless latest_changed
main_latest_graph(graph) ==
    IF ~latest_changed THEN _cached_graph
    ELSE ParseTurtle({N3Line(x) : x \in store[graph]})

\* DB.latest(graph)
main_latest(graph) ==
    /\ latest_changed' = FALSE
    /\ _cached_graph' = main_latest_graph(graph)
    /\ UNCHANGED <<store, changesets, redos, precommit_hooks, postcommit_hooks,
                   clock, nextId, nregs, last, prev, snap, commits, undone,
                   listing, views, regs>>

\* DB.new_changeset(graph, ts) whose block returns
main_new_changeset(graph, ts, additions, deletions, now) ==
    LET id == nextId + 1
        effective == IF ts = NoneArg THEN Strftime(now) ELSE IntTs(ts[1])
        removed == ContextRemoveAll(store, graph, deletions)
        added == ContextAddAll(removed, graph, additions)
    IN  /\ nextId < MaxCommits
        /\ now = clock \/ ts = NoneArg
        /\ nextId' = id
        /\ clock' = now
        /\ changesets' = changesets
              (+) BagOfSeq([i \in DOMAIN deletions |->
                              Row(id, effective, graph, TRUE, deletions[i])])
              (+) BagOfSeq([i \in DOMAIN additions |->
                              Row(id, effective, graph, FALSE, additions[i])])
        /\ store' = added
        /\ latest_changed' = TRUE
        /\ last' = OpRecord("new_changeset", "committed", id, <<graph>>,
                            <<effective>>, additions, deletions, << >>)
        /\ prev' = NoPrev
        /\ snap' = NoSnap
        /\ commits' = Append(commits, [id |-> id, graph |-> graph,
                                       ts |-> effective, outcome |-> "committed",
                                       after |-> added[graph]])
        /\ UNCHANGED <<redos, precommit_hooks, postcommit_hooks, nregs, undone,
                       listing, views, regs, _cached_graph>>

\* SELECT * FROM changesets WHERE graph = ? AND timestamp > ?
MainGraphAtRows(log, graph, timestamp) ==
    {r \in DOMAIN log : r.graph = graph /\ TsLess(timestamp, r.timestamp)}

\* g - delGraph + addGraph
MainSetBased(g, rows) ==
    LET addGraph == ParseTurtle({N3Line(r.triple) : r \in {q \in rows : q.is_insertion}})
        delGraph == ParseTurtle({N3Line(r.triple) : r \in {q \in rows : ~q.is_insertion}})
    IN  (g \ delGraph) \cup addGraph

\* DB.graph_at(graph, timestamp)
main_graph_at(graph, timestamp, now) ==
    LET effective == IF timestamp = NoneArg THEN Strftime(now) ELSE IntTs(timestamp[1])
    IN  /\ now = clock \/ timestamp = NoneArg
        /\ clock' = now
        /\ latest_changed' = FALSE
        /\ _cached_graph' = main_latest_graph(graph)
        /\ snap' = [called |-> TRUE, timestamp |-> <<effective>>, graph |-> <<graph>>,
                    result |-> MainSetBased(main_latest_graph(graph),
                                   MainGraphAtRows(changesets, graph, effective))]
        /\ UNCHANGED <<store, changesets, redos, precommit_hooks, postcommit_hooks,
                       nextId, nregs, last, prev, commits, undone, listing, views,
                       regs>>

\* ------------------------------------------------------------------- Next
GraphArgs == {NoneArg} \cup {<<g>> : g \in GraphNames}
Hooks == {Hook(n, f) : n \in HookNames, f \in HookFns}

\* changesets, undo and redo on a DB without hooks
Next ==
    \/ \E g \in GraphNames, a \in StagedLists, d \in StagedLists :
          new_changeset_body_raises(g, a, d)
    \/ \E g \in GraphNames, ts \in TsArgs, a \in StagedLists, d \in StagedLists,
          now \in clock..MaxClock :
          new_changeset(g, ts, a, d, now, 0)
    \/ undo_empty
    \/ \E latest \in DOMAIN changesets : undo(latest)
    \/ redo_empty
    \/ \E redo_record \in DOMAIN redos : redo(redo_record)

Spec == Init /\ [][Next]_vars

\* changesets and snapshots
NextSnapshot ==
    \/ \E g \in GraphNames, ts \in TsArgs, a \in StagedLists, d \in StagedLists,
          now \in clock..MaxClock :
          new_changeset(g, ts, a, d, now, 0)
    \/ \E t \in TsArgs, g \in GraphArgs, now \in clock..MaxClock :
          graph_at(t, g, now)

SpecSnapshot == Init /\ [][NextSnapshot]_vars

\* hook registration and changesets with defaulted timestamps
NextHooks ==
    \/ \E hook \in Hooks : add_precommit_hook(hook)
    \/ \E hook \in Hooks : add_postcommit_hook(hook)
    \/ \E g \in GraphNames, a \in StagedLists, d \in StagedLists :
          new_changeset_body_raises(g, a, d)
    \/ \E g \in GraphNames, a \in StagedLists, d \in StagedLists,
          fail \in 0..(Len(precommit_hooks) + Len(postcommit_hooks)) :
          new_changeset(g, NoneArg, a, d, clock, fail)

SpecHooks == Init /\ [][NextHooks]_vars

\* changesets that stage no triple for both addition and removal (the case
\* whose net effect the design leaves open), undo and redo
NextDisjoint ==
    \/ \E g \in GraphNames, ts \in TsArgs, a \in StagedLists, d \in StagedLists,
          now \in clock..MaxClock :
          /\ Range(a) \cap Range(d) = {}
          /\ new_changeset(g, ts, a, d, now, 0)
    \/ \E latest \in DOMAIN changesets : undo(latest)
    \/ \E redo_record \in DOMAIN redos : redo(redo_record)

SpecDisjoint == Init /\ [][NextDisjoint]_vars

\* changesets, undo, redo and the version index
NextVersions ==
    \/ \E g \in GraphNames, ts \in TsArgs, a \in StagedLists, d \in StagedLists,
          now \in clock..MaxClock :
          /\ Range(a) \cap Range(d) = {}
          /\ new_changeset(g, ts, a, d, now, 0)
    \/ \E latest \in DOMAIN changesets : undo(latest)
    \/ \E redo_record \in DOMAIN redos : redo(redo_record)
    \/ \E g \in GraphArgs : versions(g)

SpecVersions == Init /\ [][NextVersions]_vars

\* main.py: changesets, latest and snapshots
NextMain ==
    \/ \E g \in GraphNames, ts \in MainTsArgs, a \in StagedLists, d \in StagedLists,
          now \in clock..MaxClock :
          main_new_changeset(g, ts, a, d, now)
    \/ \E g \in GraphNames : main_latest(g)
    \/ \E g \in GraphNames, t \in MainTsArgs, now \in clock..MaxClock :
          main_graph_at(g, t, now)

SpecMain == Init /\ [][NextMain]_vars

\* ================================================================= claims
\* helpers of the properties below
Committed == last.op = "new_changeset" /\ last.outcome = "committed"
Undone == last.op = "undo" /\ last.outcome = "ok"
Redone == last.op = "redo" /\ last.outcome = "ok"

\* number of occurrences of x in the list s
Count(s, x) == Cardinality({i \in DOMAIN s : s[i] = x})

\* the entries of a log that carry changeset id `id`, and the others
EntriesOf(log, id) == [r \in {x \in DOMAIN log : x.id = id} |-> log[r]]
EntriesNotOf(log, id) == [r \in {x \in DOMAIN log : x.id # id} |-> log[r]]
IdsIn(log) == {r.id : r \in DOMAIN log}

\* C1: an undo() that directly follows the commit of a changeset C returns the
\* live store, as a triple set, to the state S the commit started from.
C1_UndoRestoresState ==
    (Undone /\ prev.op = "new_changeset" /\ prev.outcome = "committed")
        => AllTriples(store) = AllTriples(prev.pre.store)

\* C2: commit C, undo(), redo() with nothing in between leaves the live store
\* equal, as a triple set, to the state S' before the undo, and both logs with
\* the entries they had before the undo.
C2_UndoRedoRestores ==
    (Redone /\ prev.op = "undo" /\ prev.chained)
        => /\ AllTriples(store) = AllTriples(prev.pre.store)
           /\ changesets = prev.pre.changesets
           /\ redos = prev.pre.redos

\* C3: when a precommit hook fails during finalization, the live store and the
\* active log are what they were before finalization began.
C3_PrecommitFailureRollsBack ==
    (last.op = "new_changeset" /\ last.outcome = "precommit_raised")
        => /\ store = last.pre.store
           /\ changesets = last.pre.changesets

\* the changesets finalized on graph g, oldest first
CommitsOn(g) == SelectSeq(commits, LAMBDA c : c.graph = g)

StrictlyIncreasing(cs) ==
    \A i \in DOMAIN cs : \A j \in DOMAIN cs : i < j => TsLess(cs[i].ts, cs[j].ts)

\* the content g had right after the last changeset on g with timestamp <= t
\* (the empty graph when there is none)
ContentAsOf(g, t) ==
    LET cs == CommitsOn(g)
        upto == {i \in DOMAIN cs : TsGeq(t, cs[i].ts)}
    IN  IF upto = {} THEN {}
        ELSE cs[CHOOSE i \in upto : \A j \in upto : j <= i].after

\* C4: for changesets committed on g with strictly increasing timestamps,
\* graph_at(t, g) is the content g had right after the last changeset with
\* timestamp <= t (a changeset committed exactly at t is included).
C4_SnapshotAtTimestamp ==
    (snap.called /\ snap.graph # NoneArg /\ StrictlyIncreasing(CommitsOn(snap.graph[1])))
        => snap.result = ContentAsOf(snap.graph[1], snap.timestamp[1])

\* C5: a successfully committed changeset adds to the active log exactly one
\* entry with is_insertion = FALSE per staged addition and one with
\* is_insertion = TRUE per staged removal, each with the staged triple, the
\* changeset's id, graph and single timestamp, and no other entry.
C5_InverseLogging ==
    Committed =>
        LET new == changesets (-) last.pre.changesets
            entry(ins, x) == [id |-> last.id, timestamp |-> last.ts[1],
                              graph |-> last.graph[1], is_insertion |-> ins,
                              triple |-> x]
        IN  /\ last.pre.changesets \sqsubseteq changesets
            /\ \A x \in Triples :
                 /\ CopiesIn(entry(FALSE, x), new) = Count(last.additions, x)
                 /\ CopiesIn(entry(TRUE, x), new) = Count(last.deletions, x)
            /\ BagCardinality(new) = Len(last.additions) + Len(last.deletions)
            /\ last.id \notin IdsIn(last.pre.changesets) \cup IdsIn(last.pre.redos)

C5_Witness ==
    /\ Committed
    /\ last.additions # << >>
    /\ last.deletions # << >>
    /\ last.pre.changesets # EmptyBag

\* C6: after a successful commit on g of additions A and removals R, A and R
\* disjoint, g holds (S minus R) union A, S being g's content before; adding a
\* present triple and removing an absent one raise nothing, and every other
\* graph is unchanged.
C6_CommitEffect ==
    (Committed /\ Range(last.additions) \cap Range(last.deletions) = {})
        => /\ store[last.graph[1]] =
                (last.pre.store[last.graph[1]] \ Range(last.deletions))
                \cup Range(last.additions)
           /\ \A c \in Contexts \ {last.graph[1]} : store[c] = last.pre.store[c]

C6_Witness ==
    /\ Committed
    /\ Range(last.additions) \cap Range(last.deletions) = {}
    /\ Range(last.additions) \cap last.pre.store[last.graph[1]] # {}
    /\ Range(last.deletions) \ last.pre.store[last.graph[1]] # {}

\* C7: what undo() does to the live store is the replay of the entries of the
\* one changeset it moves to the redo log; entries of other changesets of the
\* active log, also of one with the same timestamp, are not applied.
C7_UndoReplaysOnlyItsChangeset ==
    Undone =>
        store \in ConjunctiveReplay(last.pre.store,
                     GraphAtOps(DOMAIN EntriesOf(last.pre.changesets, last.id)))

\* C8: when the redo log holds more than one changeset, redo() restores the
\* one that was undone most recently.
C8_RedoIsLIFO ==
    (Redone /\ Len(last.pre.undone) > 1)
        => last.id = last.pre.undone[Len(last.pre.undone)]

\* C9: the changeset undo() reverts is the one committed most recently among
\* those in the active log (ids are drawn in commit order).
C9_UndoRevertsLatestCommit ==
    Undone => \A r \in DOMAIN last.pre.changesets : r.id <= last.id

\* C10: no changeset id has entries in both logs; an undo or redo moves all
\* entries of the selected changeset and none of another, so the entries of
\* the two logs together stay the same.
C10_LogExclusivity ==
    /\ IdsIn(changesets) \cap IdsIn(redos) = {}
    /\ Undone =>
         /\ changesets = EntriesNotOf(last.pre.changesets, last.id)
         /\ redos = last.pre.redos (+) EntriesOf(last.pre.changesets, last.id)
         /\ EntriesOf(last.pre.changesets, last.id) # EmptyBag
    /\ Redone =>
         /\ redos = EntriesNotOf(last.pre.redos, last.id)
         /\ changesets = last.pre.changesets (+) EntriesOf(last.pre.redos, last.id)
         /\ EntriesOf(last.pre.redos, last.id) # EmptyBag
    /\ (Undone \/ Redone) =>
         changesets (+) redos = last.pre.changesets (+) last.pre.redos

\* an undo or a redo that moved a changeset while the other log was not
\* empty and another changeset shared its timestamp
C10_Witness ==
    /\ Undone \/ Redone
    /\ changesets # EmptyBag
    /\ redos # EmptyBag
    /\ \E r \in DOMAIN changesets : \E q \in DOMAIN redos : r.timestamp = q.timestamp

\* the changeset `last` finalized staged something and changed nothing in its
\* graph: every staged addition was present and every staged removal absent
NoOpChangeset ==
    /\ last.op = "new_changeset" /\ last.outcome = "committed"
    /\ Len(last.additions) + Len(last.deletions) > 0
    /\ Range(last.additions) \subseteq last.pre.store[last.graph[1]]
    /\ Range(last.deletions) \cap last.pre.store[last.graph[1]] = {}

\* C11: when the changeset committed last on g, at t2, changed nothing in g
\* and the changesets on g have strictly increasing timestamps, graph_at(t2, g)
\* returns what graph_at(t1, g) returns, t1 being the timestamp of the
\* preceding changeset on g.
C11_NoOpChangesetKeepsHistory ==
    LET cs == CommitsOn(last.graph[1])
    IN  (/\ NoOpChangeset
         /\ Len(cs) >= 2 /\ StrictlyIncreasing(cs)
         /\ snap.called /\ snap.graph = last.graph /\ snap.timestamp = last.ts)
            => snap.result \in _graph_at(store[last.graph[1]], changesets,
                                        cs[Len(cs) - 1].ts, last.graph)

\* the changeset `last` finalized is in the active log `log` and in the store
\* `st`: one entry per staged triple, and in its graph the removals then the
\* additions
AppliedIn(st, log) ==
    LET new == log (-) last.pre.changesets
        g == last.graph[1]
    IN  /\ last.pre.changesets \sqsubseteq log
        /\ BagCardinality(new) = Len(last.additions) + Len(last.deletions)
        /\ IdsIn(new) \subseteq {last.id}
        /\ \A x \in Range(last.additions) : x \in st[g]
        /\ \A x \in Range(last.deletions) \ Range(last.additions) : x \notin st[g]
        /\ \A x \in Triples \ (Range(last.additions) \cup Range(last.deletions)) :
              x \in st[g] <=> x \in last.pre.store[g]

LastChangesetApplied == AppliedIn(store, changesets)

\* C12: when a postcommit hook raises, the caller gets the failure (the last
\* hook invoked is the postcommit hook that raised, after every precommit
\* hook), and the changeset's entries stay in the active log and its
\* mutations stay in the store.
C12_PostcommitFailureKeepsCommit ==
    (last.op = "new_changeset" /\ last.outcome = "postcommit_raised")
        => /\ Len(last.calls) > Len(precommit_hooks)
           /\ last.calls[Len(last.calls)][1] = "post"
           /\ LastChangesetApplied

C12_Witness ==
    /\ last.op = "new_changeset" /\ last.outcome = "postcommit_raised"
    /\ last.additions # << >> /\ last.deletions # << >>
    /\ store # last.pre.store

\* C13: when the block of `with db.new_changeset(...)` raises after staging,
\* no entry is written to either log, the store is unchanged and no hook is
\* invoked.
C13_BodyFailureAborts ==
    (last.op = "new_changeset" /\ last.outcome = "body_raised")
        => /\ changesets = last.pre.changesets
           /\ redos = last.pre.redos
           /\ store = last.pre.store
           /\ last.calls = << >> /\ views = << >>

C13_Witness ==
    /\ last.op = "new_changeset" /\ last.outcome = "body_raised"
    /\ last.additions # << >> /\ last.deletions # << >>
    /\ precommit_hooks # << >> /\ postcommit_hooks # << >>
    /\ Range(last.additions) \ store[last.graph[1]] # {}

\* C14: a step that is a call of graph_at(t, g), for any t and any g or none,
\* leaves the active log, the redo log and every graph of the live store as
\* they were.
C14_SnapshotReadOnly ==
    [][snap'.called => (store' = store /\ changesets' = changesets /\ redos' = redos)]_vars

\* a snapshot that differs from the live graph it was taken of
C14_Witness ==
    /\ snap.called /\ snap.graph # NoneArg
    /\ snap.result # store[snap.graph[1]]

\* C15: undo() raises exactly when the active log is empty and redo() exactly
\* when the redo log is empty, and a call that raised left the store and both
\* logs as they were.
C15_EmptyLogFailures ==
    /\ last.op = "undo" => (last.outcome = "raised" <=> last.pre.changesets = EmptyBag)
    /\ last.op = "redo" => (last.outcome = "raised" <=> last.pre.redos = EmptyBag)
    /\ (last.op \in {"undo", "redo"} /\ last.outcome = "raised")
          => /\ store = last.pre.store
             /\ changesets = last.pre.changesets
             /\ redos = last.pre.redos

\* undo() raised on a DB whose changesets are all undone
C15_Witness ==
    /\ last.op = "undo" /\ last.outcome = "raised"
    /\ redos # EmptyBag

\* the ids of the changesets with an entry for the graph argument in `log`
IdsFor(log, graph) ==
    {r.id : r \in {q \in DOMAIN log : graph = NoneArg \/ q.graph = graph[1]}}

\* the list versions returned is right for the current logs
VersionsListed ==
    LET res == listing.result
    IN  /\ {res[i].id : i \in DOMAIN res} = IdsFor(changesets, listing.graph)
        /\ Len(res) = Cardinality(IdsFor(changesets, listing.graph))
        /\ \A i \in DOMAIN res :
              \E c \in Range(commits) :
                  /\ c.id = res[i].id
                  /\ c.graph = res[i].graph
                  /\ c.ts = res[i].timestamp
        /\ \A i \in DOMAIN res : \A j \in DOMAIN res :
              i < j => TsGeq(res[i].timestamp, res[j].timestamp)
        /\ \A i \in DOMAIN res : res[i].id \notin IdsIn(redos)

\* C16: a call of versions(g) returns one (id, graph, timestamp) record per
\* changeset with an entry for g in the active log (for any graph when g is
\* omitted), in non-increasing timestamp order, none for a changeset that is
\* undone and not redone, and leaves the store and both logs as they were.
C16_VersionIndex ==
    [][listing'.called =>
         /\ store' = store /\ changesets' = changesets /\ redos' = redos
         /\ VersionsListed']_vars

\* two changesets of one graph listed, of different timestamps, one of them
\* with two entries, right after a changeset came back by redo()
C16_Witness ==
    /\ listing.called /\ listing.graph # NoneArg
    /\ Len(listing.result) = 2
    /\ listing.result[1].timestamp # listing.result[2].timestamp
    /\ \E i \in 1..2 : BagCardinality(EntriesOf(changesets, listing.result[i].id)) = 2
    /\ last.op = "redo" /\ last.outcome = "ok"

\* C17: in a finalization every hook invoked, the first precommit hook
\* included, is handed the store and the active log with the changeset
\* written; no precommit hook is invoked after a postcommit hook; a postcommit
\* hook is invoked only when every precommit hook was invoked and none raised.
C17_CommitOrdering ==
    (last.op = "new_changeset" /\ last.outcome # "body_raised")
        => LET calls == last.calls
               pres == {i \in DOMAIN calls : calls[i][1] = "pre"}
               posts == {i \in DOMAIN calls : calls[i][1] = "post"}
           IN  /\ DOMAIN views = DOMAIN calls
               /\ \A i \in DOMAIN calls : AppliedIn(views[i].store, views[i].changesets)
               /\ \A i \in pres : \A j \in posts : i < j
               /\ posts # {} => /\ Cardinality(pres) = Len(precommit_hooks)
                                /\ last.outcome # "precommit_raised"
               /\ last.outcome = "committed"
                     => Cardinality(posts) = Len(postcommit_hooks)

\* a changeset that changed its graph, with a precommit and a postcommit hook
C17_Witness ==
    /\ Committed
    /\ \E i \in DOMAIN last.calls : last.calls[i][1] = "pre"
    /\ \E i \in DOMAIN last.calls : last.calls[i][1] = "post"
    /\ store # last.pre.store

\* the registrations of kind k ("pre" or "post"), oldest first
RegsOf(k) == SelectSeq(regs, LAMBDA r : r[1] = k)

\* registry `reg` holds one entry per name registered with kind k, each with
\* the callback registered last under the name, in the order in which the
\* names were first registered
RegistryOf(reg, k) ==
    LET h == RegsOf(k)
        first(n) == CHOOSE i \in DOMAIN h :
                        /\ h[i][2].name = n
                        /\ \A j \in DOMAIN h : h[j][2].name = n => i <= j
        latest(n) == CHOOSE i \in DOMAIN h :
                        /\ h[i][2].name = n
                        /\ \A j \in DOMAIN h : h[j][2].name = n => j <= i
    IN  /\ {reg[i].name : i \in DOMAIN reg} = {h[i][2].name : i \in DOMAIN h}
        /\ \A i \in DOMAIN reg : \A j \in DOMAIN reg :
              i # j => reg[i].name # reg[j].name
        /\ \A i \in DOMAIN reg : reg[i].fn = h[latest(reg[i].name)][2].fn
        /\ \A i \in DOMAIN reg : \A j \in DOMAIN reg :
              i < j => first(reg[i].name) < first(reg[j].name)

\* C18: each registry holds one entry per registered name, with the callback
\* registered last under that name, in registration order; a commit in which
\* no hook raises invokes each registered precommit hook once, then each
\* registered postcommit hook once, in that order.
C18_HookRegistry ==
    /\ RegistryOf(precommit_hooks, "pre")
    /\ RegistryOf(postcommit_hooks, "post")
    /\ Committed =>
          last.calls = [i \in DOMAIN precommit_hooks |-> <<"pre", precommit_hooks[i].fn>>]
                       \o [i \in DOMAIN postcommit_hooks |-> <<"post", postcommit_hooks[i].fn>>]

\* a commit after a precommit hook was registered twice under one name with
\* different callbacks
C18_Witness ==
    /\ Committed
    /\ Len(RegsOf("pre")) = 2
    /\ RegsOf("pre")[1][2].name = RegsOf("pre")[2][2].name
    /\ RegsOf("pre")[1][2].fn # RegsOf("pre")[2][2].fn
    /\ last.calls = << <<"pre", RegsOf("pre")[2][2].fn>> >>

\* C19: on a DB that started empty, with changesets of strictly increasing
\* timestamps, graph_at(t, g) with t below every timestamp of the active log
\* returns the empty triple set.
C19_SnapshotBeforeHistory ==
    (/\ snap.called /\ snap.graph # NoneArg
     /\ StrictlyIncreasing(commits)
     /\ \A r \in DOMAIN changesets : TsLess(snap.timestamp[1], r.timestamp))
        => snap.result = {}

\* the triple sets the store can hold after the staged removals and additions
\* of changeset `id`, read off its entries in `log`, are applied to store st
Reapplied(st, log, id) ==
    {AllTriples(s) : s \in ConjunctiveReplay(st, RedoOps(DOMAIN EntriesOf(log, id)))}

\* C20: redo() of a changeset changes the live store, as a triple set, by
\* re-applying that changeset's staged removals and additions and no more:
\* no other changeset of the active log is reverted.
C20_RedoConfinement ==
    Redone => AllTriples(store) \in Reapplied(last.pre.store, last.pre.redos, last.id)

\* the named graph the changeset `id` was committed on
GraphOfChangeset(id) == (CHOOSE c \in Range(commits) : c.id = id).graph

\* C21: undo() and redo() of a changeset committed on g leave every other
\* named graph and the default graph as they were, and commit, undo(), redo()
\* with nothing in between leaves g with the content it had after the commit.
C21_UndoRedoStayInGraph ==
    /\ (Undone \/ Redone)
          => \A c \in Contexts \ {GraphOfChangeset(last.id)} :
                 store[c] = last.pre.store[c]
    /\ (Redone /\ prev.op = "undo" /\ prev.chained)
          => store[GraphOfChangeset(last.id)]
                 = prev.pre.store[GraphOfChangeset(last.id)]

\* C22: finalizing a changeset leaves the redo log as it was: every changeset
\* undone before is still in the redo log, where a later redo() selects from.
C22_RedoLogSurvivesCommit ==
    last.op = "new_changeset"
        => /\ redos = last.pre.redos
           /\ \A id \in Range(last.pre.undone) : id \in IdsIn(redos)

\* a changeset committed while another one is undone
C22_Witness ==
    /\ Committed
    /\ Len(last.additions) + Len(last.deletions) > 0
    /\ last.pre.undone # << >>
    /\ redos # EmptyBag

\* C23: a triple staged both for addition and for removal in one changeset is
\* in the graph after the commit, whether or not it was there before, and
\* the changeset's entries hold for it one is_insertion = TRUE entry per
\* staged removal and one is_insertion = FALSE entry per staged addition.
C23_AddAndRemoveSameTriple ==
    Committed =>
        \A x \in Range(last.additions) \cap Range(last.deletions) :
            LET new == EntriesOf(changesets, last.id)
                entry(ins) == [id |-> last.id, timestamp |-> last.ts[1],
                               graph |-> last.graph[1], is_insertion |-> ins,
                               triple |-> x]
            IN  /\ x \in store[last.graph[1]]
                /\ CopiesIn(entry(TRUE), new) = Count(last.deletions, x)
                /\ CopiesIn(entry(FALSE), new) = Count(last.additions, x)

\* a triple staged for both that the graph did not hold, on a DB with history
C23_Witness ==
    /\ Committed
    /\ \E x \in Range(last.additions) \cap Range(last.deletions) :
           x \notin last.pre.store[last.graph[1]]
    /\ last.pre.changesets # EmptyBag

\* the results of replaying, newest first, the entries of g with timestamp
\* greater than t against the content of g
OrderedReplay(g, t) ==
    GraphReplay(store[g],
                GraphAtOps({r \in DOMAIN changesets : r.graph = g /\ TsLess(t, r.timestamp)}))

\* C24: for changesets on g with strictly increasing timestamps, main.py's
\* graph_at(g, t) returns what the replay of the entries with timestamp > t,
\* one by one from newest to oldest, returns, and that is the content g had
\* right after the last changeset with timestamp <= t.
C24_SetBasedAgreesWithReplay ==
    (snap.called /\ StrictlyIncreasing(CommitsOn(snap.graph[1])))
        => /\ snap.result \in OrderedReplay(snap.graph[1], snap.timestamp[1])
           /\ snap.result = ContentAsOf(snap.graph[1], snap.timestamp[1])
====
